---------------------------- MODULE Spec2Model ----------------------------
(***************************************************************************)
(* A model of the Cryptome Pay Go client (package cryptomepay):           *)
(* request signing (generateSignature), webhook verification              *)
(* (VerifyWebhookSignature, VerifyWebhookSignatureFromMap), CreatePayment  *)
(* and the environment switches, as a state machine over one Client.      *)
(*                                                                         *)
(* Strings are sequences of characters.  A character is either a literal  *)
(* byte [c |-> "a"] or a symbolic byte: a hex digit of a digest or of a   *)
(* random byte.  HMAC-SHA256 is modelled as a collision-free function of  *)
(* (key, message): byte i of the digest is the symbolic value             *)
(* [mac |-> <<key, message>>, i |-> i], so two digests are equal exactly  *)
(* when key and message are equal.  float64 values are the finite         *)
(* decimals n / FloatUnit (n an integer); NaN and the infinities are not  *)
(* modelled.                                                               *)
(***************************************************************************)
EXTENDS Integers, Sequences, FiniteSets, TLC

VARIABLES client, pc, call, wire

vars == <<client, pc, call, wire>>

---------------------------------------------------------------------------
(* Strings *)

Ch(x) == [c |-> x]

\* The string with the given characters, e.g. S(<<"a", "b">>) is "ab".
S(lit) == [i \in 1..Len(lit) |-> Ch(lit[i])]

EmptyString == <<>>

\* The ASCII digits, upper-case and lower-case letters, each in byte order.
Digits == <<"0", "1", "2", "3", "4", "5", "6", "7", "8", "9">>
Upper ==
  <<"A", "B", "C", "D", "E", "F", "G", "H", "I", "J", "K", "L", "M",
    "N", "O", "P", "Q", "R", "S", "T", "U", "V", "W", "X", "Y", "Z">>
Lower ==
  <<"a", "b", "c", "d", "e", "f", "g", "h", "i", "j", "k", "l", "m",
    "n", "o", "p", "q", "r", "s", "t", "u", "v", "w", "x", "y", "z">>

\* The ASCII code of each character the model's strings use.
AsciiCode ==
  LET seg(seq, base) ==
        [x \in {seq[i] : i \in DOMAIN seq} |->
           base + (CHOOSE i \in DOMAIN seq : seq[i] = x)]
  IN  seg(Digits, 47) @@ seg(Upper, 64) @@ seg(Lower, 96)
        @@ ("&" :> 38) @@ ("+" :> 43) @@ ("-" :> 45) @@ ("." :> 46) @@ ("/" :> 47)
        @@ (" " :> 32) @@ ("%" :> 37) @@ (":" :> 58) @@ ("<" :> 60) @@ ("=" :> 61) @@ (">" :> 62) @@ ("?" :> 63)
        @@ ("_" :> 95)

\* The byte value of a literal character.
ByteOf(ch) == AsciiCode[ch.c]

RECURSIVE Concat(_)
\* The concatenation of a sequence of strings, in order (strings.Builder).
Concat(parts) ==
  IF parts = <<>> THEN EmptyString ELSE Head(parts) \o Concat(Tail(parts))

RECURSIVE LessFrom(_, _, _)
LessFrom(s, t, i) ==
  IF i > Len(s) THEN i <= Len(t)
  ELSE IF i > Len(t) THEN FALSE
  ELSE IF ByteOf(s[i]) < ByteOf(t[i]) THEN TRUE
  ELSE IF ByteOf(s[i]) > ByteOf(t[i]) THEN FALSE
  ELSE LessFrom(s, t, i + 1)

\* Go's s < t on strings: byte-wise lexicographic order.
StringLess(s, t) == LessFrom(s, t, 1)

RECURSIVE InsertSorted(_, _)
InsertSorted(sorted, k) ==
  IF sorted = <<>> THEN <<k>>
  ELSE IF StringLess(k, Head(sorted)) THEN <<k>> \o sorted
  ELSE <<Head(sorted)>> \o InsertSorted(Tail(sorted), k)

RECURSIVE SortFrom(_, _)
SortFrom(keys, sorted) ==
  IF keys = <<>> THEN sorted
  ELSE SortFrom(Tail(keys), InsertSorted(sorted, Head(keys)))

\* A sort that leaves the keys in the order the map iteration produced them.
SortStringsUnsorted(keys) == keys

\* sort.Strings(keys): the keys in increasing order.
SortStrings(keys) == SortFrom(keys, <<>>)

---------------------------------------------------------------------------
(* Keys and constants of the package *)

SignatureKey == S(<<"s", "i", "g", "n", "a", "t", "u", "r", "e">>)
TradeIDKey == S(<<"t", "r", "a", "d", "e", "_", "i", "d">>)
OrderIDKey == S(<<"o", "r", "d", "e", "r", "_", "i", "d">>)
AmountKey == S(<<"a", "m", "o", "u", "n", "t">>)
ActualAmountKey == S(<<"a", "c", "t", "u", "a", "l", "_", "a", "m", "o", "u", "n", "t">>)
TokenKey == S(<<"t", "o", "k", "e", "n">>)
ChainTypeKey == S(<<"c", "h", "a", "i", "n", "_", "t", "y", "p", "e">>)
BlockTransactionIDKey ==
  S(<<"b", "l", "o", "c", "k", "_", "t", "r", "a", "n", "s", "a", "c", "t", "i", "o", "n",
      "_", "i", "d">>)
StatusKey == S(<<"s", "t", "a", "t", "u", "s">>)
APIKeyKey == S(<<"a", "p", "i", "_", "k", "e", "y">>)
TimestampKey == S(<<"t", "i", "m", "e", "s", "t", "a", "m", "p">>)
NonceKey == S(<<"n", "o", "n", "c", "e">>)
NotifyURLKey == S(<<"n", "o", "t", "i", "f", "y", "_", "u", "r", "l">>)
RedirectURLKey == S(<<"r", "e", "d", "i", "r", "e", "c", "t", "_", "u", "r", "l">>)

ProductionURL ==
  S(<<"h", "t", "t", "p", "s", ":", "/", "/", "a", "p", "i", ".", "c", "r", "y", "p",
      "t", "o", "m", "e", "p", "a", "y", ".", "c", "o", "m", "/", "a", "p", "i", "/",
      "v", "1">>)
SandboxURL ==
  S(<<"h", "t", "t", "p", "s", ":", "/", "/", "s", "a", "n", "d", "b", "o", "x", ".",
      "c", "r", "y", "p", "t", "o", "m", "e", "p", "a", "y", ".", "c", "o", "m", "/",
      "a", "p", "i", "/", "v", "1">>)

---------------------------------------------------------------------------
(* crypto/hmac, crypto/sha256, encoding/hex *)

\* sha256.Size: the digest length in bytes.
DigestSize == 32

\* An HMAC with a 128-bit digest (MD5) in place of SHA-256.
HmacMD5(key, msg) == [i \in 1..(DigestSize \div 2) |-> [mac |-> <<key, msg>>, i |-> i]]

\* h := hmac.New(sha256.New, key); h.Write(msg); h.Sum(nil)
HmacSHA256(key, msg) == [i \in 1..DigestSize |-> [mac |-> <<key, msg>>, i |-> i]]

\* An encoding that writes one digit, the high nibble, for each byte.
HexEncodeHighNibble(bytes) == [i \in 1..Len(bytes) |-> [hex |-> bytes[i], nib |-> "hi"]]

\* hex.EncodeToString: two lowercase hex digits per byte, high nibble first.
HexEncodeToString(bytes) ==
  [i \in 1..(2 * Len(bytes)) |->
     [hex |-> bytes[(i + 1) \div 2], nib |-> IF i % 2 = 1 THEN "hi" ELSE "lo"]]

---------------------------------------------------------------------------
(* fmt.Sprintf *)

\* A float64 value is an integer number of units of 1 / FloatUnit.
FloatUnit == 10 ^ 5

RECURSIVE NatDigits(_)
NatDigits(n) ==
  IF n < 10 THEN <<Ch(Digits[n + 1])>>
  ELSE NatDigits(n \div 10) \o <<Ch(Digits[(n % 10) + 1])>>

\* fmt.Sprintf("%d", n)
FormatInt(n) == IF n < 0 THEN S(<<"-">>) \o NatDigits(-n) ELSE NatDigits(n)

RECURSIVE PadZeros(_, _)
PadZeros(digits, width) ==
  IF Len(digits) >= width THEN digits ELSE PadZeros(S(<<"0">>) \o digits, width)

\* fmt.Sprintf("%.<prec>f", x) for prec < 5: x rounded to prec decimals, a tie to
\* the even digit, with the sign of x kept.
FormatFixed(x, prec) ==
  LET a == IF x < 0 THEN -x ELSE x
      scale == FloatUnit \div (10 ^ prec)
      q == a \div scale
      r == a % scale
      n == IF 2 * r > scale \/ (2 * r = scale /\ q % 2 = 1) THEN q + 1 ELSE q
  IN  (IF x < 0 THEN S(<<"-">>) ELSE EmptyString)
        \o NatDigits(n \div (10 ^ prec))
        \o (IF prec > 0 THEN S(<<".">>) \o PadZeros(NatDigits(n % (10 ^ prec)), prec)
            ELSE EmptyString)

RECURSIVE TrimZeros(_)
TrimZeros(digits) ==
  IF digits # <<>> /\ digits[Len(digits)] = Ch("0")
  THEN TrimZeros(SubSeq(digits, 1, Len(digits) - 1))
  ELSE digits

\* fmt.Sprintf("%v", x) for a float64 x with x = 0 or 1e-4 <= |x| < 1e21: the
\* shortest decimal that reads back as x, without exponent.
FormatFloatV(x) ==
  LET a == IF x < 0 THEN -x ELSE x
      frac == TrimZeros(PadZeros(NatDigits(a % FloatUnit), 5))
  IN  (IF x < 0 THEN S(<<"-">>) ELSE EmptyString)
        \o NatDigits(a \div FloatUnit)
        \o (IF frac = <<>> THEN EmptyString ELSE S(<<".">>) \o frac)

\* Values of type interface{}, as encoding/json decodes them.
StringValue(s) == [t |-> "string", s |-> s]
Float64Value(x) == [t |-> "float64", f |-> x]
BoolValue(b) == [t |-> "bool", b |-> b]
NilValue == [t |-> "nil"]

\* fmt.Sprintf("%q", v) for strings: the string in double quotes.
FormatQ(v) ==
  CASE v.t = "string" -> S(<<"\"">>) \o v.s \o S(<<"\"">>)
    [] v.t = "float64" -> FormatFloatV(v.f)
    [] v.t = "bool" -> IF v.b THEN S(<<"t", "r", "u", "e">>) ELSE S(<<"f", "a", "l", "s", "e">>)
    [] v.t = "nil" -> S(<<"<", "n", "i", "l", ">">>)

\* fmt.Sprintf("%v", v)
FormatV(v) ==
  CASE v.t = "string" -> v.s
    [] v.t = "float64" -> FormatFloatV(v.f)
    [] v.t = "bool" -> IF v.b THEN S(<<"t", "r", "u", "e">>) ELSE S(<<"f", "a", "l", "s", "e">>)
    [] v.t = "nil" -> S(<<"<", "n", "i", "l", ">">>)

formatAmount(amount) == FormatFixed(amount, 2)

formatActualAmount(amount) == FormatFixed(amount, 4)

---------------------------------------------------------------------------
(* generateSignature *)

\* A Go map is a function from its keys; a nil map reads as the empty map.
EmptyMap == <<>>

\* m with m[k] = v set.
Put(m, k, v) == (k :> v) @@ m

RECURSIVE AppendKeys(_, _, _)
\* Lines 377-382: the keys other than `signature` whose value is not empty, in
\* the order the iteration over the map yields them.
AppendKeys(params, order, keys) ==
  IF order = <<>> THEN keys
  ELSE LET k == Head(order)
       IN  AppendKeys(params, Tail(order),
                      IF k # SignatureKey /\ params[k] # EmptyString
                      THEN Append(keys, k) ELSE keys)

\* AppendKeys without the exclusion of the `signature` key.
AppendKeysKeepSignature(params, order) ==
  SelectSeq(order, LAMBDA k : params[k] # EmptyString)

\* AppendKeys without the exclusion of empty values.
AppendKeysKeepEmpty(params, order) ==
  SelectSeq(order, LAMBDA k : k # SignatureKey)

FilterKeys(params, order) == AppendKeys(params, order, <<>>)

RECURSIVE WriteQuery(_, _, _, _)
\* Lines 386-394: strings.Builder over the sorted keys.
WriteQuery(params, keys, i, builder) ==
  IF i > Len(keys) THEN builder
  ELSE WriteQuery(params, keys, i + 1,
                  builder \o (IF i > 1 THEN S(<<"&">>) ELSE EmptyString)
                          \o keys[i] \o S(<<"=">>) \o params[keys[i]])

\* QueryString with the separator written after every pair.
QueryStringTrailingSeparator(params, order) ==
  LET keys == SortStrings(FilterKeys(params, order))
  IN  Concat([i \in 1..Len(keys) |-> keys[i] \o S(<<"=">>) \o params[keys[i]] \o S(<<"&">>)])

\* builder.String() at line 398, for the iteration order `order` of the map.
QueryString(params, order) ==
  WriteQuery(params, SortStrings(FilterKeys(params, order)), 1, EmptyString)

\* c.generateSignature(params), the map iterated in the order `order`.
generateSignature(c, params, order) ==
  HexEncodeToString(HmacSHA256(c.apiSecret, QueryString(params, order)))

---------------------------------------------------------------------------
(* crypto/subtle *)

RECURSIVE OrXor(_, _, _, _)
\* v |= x[i] ^ y[i] for i from 1: whether some byte differs.
OrXor(x, y, i, v) ==
  IF i > Len(x) THEN v ELSE OrXor(x, y, i + 1, v \/ x[i] # y[i])

\* A comparison of the lengths only.
ConstantTimeCompareLength(x, y) == IF Len(x) = Len(y) THEN 1 ELSE 0

\* A comparison over the shorter length, without the length check.
ConstantTimeComparePrefix(x, y) ==
  IF \E i \in 1..(IF Len(x) < Len(y) THEN Len(x) ELSE Len(y)) : x[i] # y[i]
  THEN 0 ELSE 1

\* subtle.ConstantTimeCompare(x, y): 1 if x and y have equal contents, else 0.
\* It returns 0 at once when the lengths differ, and otherwise combines every
\* pair of bytes.
ConstantTimeCompare(x, y) ==
  IF Len(x) # Len(y) THEN 0
  ELSE IF OrXor(x, y, 1, FALSE) THEN 0 ELSE 1

\* The number of byte pairs subtle.ConstantTimeCompare(x, y) combines.
ConstantTimeCompareWork(x, y) == IF Len(x) # Len(y) THEN 0 ELSE Len(x)

---------------------------------------------------------------------------
(* The client and its operations *)

\* NewClient(apiKey, apiSecret)
NewClient(apiKey, apiSecret) ==
  [apiKey |-> apiKey, apiSecret |-> apiSecret, baseURL |-> ProductionURL,
   httpClient |-> [Timeout |-> 30]]

\* strings.TrimSuffix(s, suffix): s without one trailing occurrence of suffix.
TrimSuffix(s, suffix) ==
  IF Len(s) >= Len(suffix) /\ suffix # EmptyString
     /\ SubSeq(s, Len(s) - Len(suffix) + 1, Len(s)) = suffix
  THEN SubSeq(s, 1, Len(s) - Len(suffix)) ELSE s

RECURSIVE TrimRight(_, _)
\* strings.TrimRight(s, cutset): s without its trailing characters that are in
\* cutset.
TrimRight(s, cutset) ==
  IF s # EmptyString /\ \E i \in 1..Len(cutset) : s[Len(s)] = cutset[i]
  THEN TrimRight(SubSeq(s, 1, Len(s) - 1), cutset) ELSE s

\* The options, applied to the client c.
WithBaseURL(c, baseURL) == [c EXCEPT !.baseURL = TrimRight(baseURL, S(<<"/">>))]
WithHTTPClient(c, httpClient) == [c EXCEPT !.httpClient = httpClient]
WithTimeout(c, timeout) == [c EXCEPT !.httpClient.Timeout = timeout]

\* opt(c) for an option value.
ApplyOption(opt, c) ==
  CASE opt.option = "WithBaseURL" -> WithBaseURL(c, opt.baseURL)
    [] opt.option = "WithHTTPClient" -> WithHTTPClient(c, opt.httpClient)
    [] opt.option = "WithTimeout" -> WithTimeout(c, opt.timeout)

RECURSIVE ApplyOptions(_, _)
ApplyOptions(opts, c) ==
  IF opts = <<>> THEN c ELSE ApplyOptions(Tail(opts), ApplyOption(Head(opts), c))

\* NewClientWithOptions(apiKey, apiSecret, opts...)
NewClientWithOptions(apiKey, apiSecret, opts) ==
  ApplyOptions(opts, NewClient(apiKey, apiSecret))

\* WebhookParams with the amounts in their shortest decimal form ("%v").
WebhookParamsUnformatted(payload) ==
  (TradeIDKey :> payload.TradeID) @@ (OrderIDKey :> payload.OrderID)
    @@ (AmountKey :> FormatFloatV(payload.Amount))
    @@ (ActualAmountKey :> FormatFloatV(payload.ActualAmount))
    @@ (TokenKey :> payload.Token) @@ (ChainTypeKey :> payload.ChainType)
    @@ (BlockTransactionIDKey :> payload.BlockTransactionID)
    @@ (StatusKey :> FormatInt(payload.Status))

\* Lines 341-350: the parameter map VerifyWebhookSignature signs.
WebhookParams(payload) ==
  (TradeIDKey :> payload.TradeID) @@ (OrderIDKey :> payload.OrderID)
    @@ (AmountKey :> formatAmount(payload.Amount))
    @@ (ActualAmountKey :> formatActualAmount(payload.ActualAmount))
    @@ (TokenKey :> payload.Token) @@ (ChainTypeKey :> payload.ChainType)
    @@ (BlockTransactionIDKey :> payload.BlockTransactionID)
    @@ (StatusKey :> FormatInt(payload.Status))

\* What a verification did: its result, whether it panicked, the messages it fed
\* to the HMAC, the number of signature comparisons it made and the number of
\* byte pairs these combined.
VerifyOutcome(ret, macInputs, compares, bytesCompared) ==
  [ret |-> ret, panicked |-> FALSE, macInputs |-> macInputs, compares |-> compares,
   bytesCompared |-> bytesCompared]

\* Lines 352-353 and 370-371: sign params, compare with the received signature.
VerifyParams(c, params, order, received) ==
  VerifyOutcome(ConstantTimeCompare(generateSignature(c, params, order), received) = 1,
                <<QueryString(params, order)>>, 1,
                ConstantTimeCompareWork(generateSignature(c, params, order), received))

\* c.VerifyWebhookSignature(payload), `order` the iteration order of params.
VerifyWebhookSignature(c, payload, order) ==
  VerifyParams(c, WebhookParams(payload), order, payload.Signature)

RECURSIVE StringifyInto(_, _, _)
\* Lines 363-368: params[k] = fmt.Sprintf("%v", v) for every key but `signature`.
StringifyInto(payload, order, params) ==
  IF order = <<>> THEN params
  ELSE LET k == Head(order)
       IN  StringifyInto(payload, Tail(order),
                         IF k # SignatureKey THEN Put(params, k, FormatV(payload[k]))
                         ELSE params)

\* The type assertion payload["signature"].(string) of line 358.
SignatureIsString(payload) ==
  SignatureKey \in DOMAIN payload /\ payload[SignatureKey].t = "string"

\* VerifyWebhookSignatureFromMap without the `!ok` return: the assertion's zero
\* value, the empty string, is compared.
VerifyWebhookSignatureFromMapNoCheck(c, payload, order1, order2) ==
  VerifyParams(c, StringifyInto(payload, order1, EmptyMap), order2,
               IF SignatureIsString(payload) THEN payload[SignatureKey].s
               ELSE EmptyString)

\* c.VerifyWebhookSignatureFromMap(payload): order1 is the iteration order of
\* payload, order2 that of params.
VerifyWebhookSignatureFromMap(c, payload, order1, order2) ==
  IF ~SignatureIsString(payload) THEN VerifyOutcome(FALSE, <<>>, 0, 0)
  ELSE VerifyParams(c, StringifyInto(payload, order1, EmptyMap), order2,
                    payload[SignatureKey].s)

\* make([]byte, 16) at line 404.
NonceBytes == 16

\* generateNonce(): the hex form of 16 bytes read from crypto/rand; `draw`
\* identifies what the random source returned.
generateNonce(draw) ==
  HexEncodeToString([i \in 1..NonceBytes |-> [rand |-> draw, i |-> i]])

CreateTransactionEndpoint ==
  S(<<"/", "o", "r", "d", "e", "r", "/", "c", "r", "e", "a", "t", "e", "-", "t", "r", "a",
      "n", "s", "a", "c", "t", "i", "o", "n">>)

\* The zero value of a response struct, and one decoded from a JSON body.
ZeroResponse == [StatusCode |-> 0, decoded |-> FALSE]
DecodedResponse(statusCode) == [StatusCode |-> statusCode, decoded |-> TRUE]

\* A request that is sent once more when the HTTP client reports an error.
requestWithRetry(c, method, endpoint, body, reply) ==
  LET req == [method |-> method, url |-> c.baseURL \o endpoint, body |-> body,
              Authorization |-> S(<<"B", "e", "a", "r", "e", "r", " ">>) \o c.apiKey]
  IN  CASE reply.kind = "do_error" ->
             [err |-> "request failed", result |-> ZeroResponse, sent |-> <<req, req>>]
        [] reply.kind = "read_error" ->
             [err |-> "failed to read response", result |-> ZeroResponse,
              sent |-> <<req>>]
        [] reply.kind = "bad_json" ->
             [err |-> "failed to unmarshal response", result |-> ZeroResponse,
              sent |-> <<req>>]
        [] reply.kind = "json" ->
             [err |-> "nil", result |-> DecodedResponse(reply.status_code),
              sent |-> <<req>>]

\* c.request(method, endpoint, body, &result).  `reply` is what the HTTP client
\* and the server do with the request.  json.Marshal and http.NewRequest do not
\* fail for the bodies and URLs of the model.
request(c, method, endpoint, body, reply) ==
  LET req == [method |-> method, url |-> c.baseURL \o endpoint, body |-> body,
              Authorization |-> S(<<"B", "e", "a", "r", "e", "r", " ">>) \o c.apiKey]
  IN  CASE reply.kind = "do_error" ->
             [err |-> "request failed", result |-> ZeroResponse, sent |-> <<req>>]
        [] reply.kind = "read_error" ->
             [err |-> "failed to read response", result |-> ZeroResponse,
              sent |-> <<req>>]
        [] reply.kind = "bad_json" ->
             [err |-> "failed to unmarshal response", result |-> ZeroResponse,
              sent |-> <<req>>]
        [] reply.kind = "json" ->
             [err |-> "nil", result |-> DecodedResponse(reply.status_code),
              sent |-> <<req>>]

\* Lines 243-257: the parameter map CreatePayment signs.
CreatePaymentParamsMap(c, params, timestamp, nonce) ==
  LET base == (APIKeyKey :> c.apiKey) @@ (TimestampKey :> timestamp)
                @@ (NonceKey :> nonce) @@ (OrderIDKey :> params.OrderID)
                @@ (AmountKey :> formatAmount(params.Amount))
                @@ (NotifyURLKey :> params.NotifyURL)
      withRedirect == IF params.RedirectURL # EmptyString
                      THEN Put(base, RedirectURLKey, params.RedirectURL) ELSE base
  IN  IF params.ChainType # EmptyString
      THEN Put(withRedirect, ChainTypeKey, params.ChainType) ELSE withRedirect

\* CreatePaymentBody with redirect_url and chain_type always present.
CreatePaymentBodyAllFields(c, params, timestamp, nonce, signature) ==
  (APIKeyKey :> StringValue(c.apiKey))
    @@ (TimestampKey :> StringValue(timestamp))
    @@ (NonceKey :> StringValue(nonce))
    @@ (OrderIDKey :> StringValue(params.OrderID))
    @@ (AmountKey :> Float64Value(params.Amount))
    @@ (NotifyURLKey :> StringValue(params.NotifyURL))
    @@ (SignatureKey :> StringValue(signature))
    @@ (RedirectURLKey :> StringValue(params.RedirectURL))
    @@ (ChainTypeKey :> StringValue(params.ChainType))

\* Lines 263-278: the JSON request body.
CreatePaymentBody(c, params, timestamp, nonce, signature) ==
  LET base == (APIKeyKey :> StringValue(c.apiKey))
                @@ (TimestampKey :> StringValue(timestamp))
                @@ (NonceKey :> StringValue(nonce))
                @@ (OrderIDKey :> StringValue(params.OrderID))
                @@ (AmountKey :> Float64Value(params.Amount))
                @@ (NotifyURLKey :> StringValue(params.NotifyURL))
                @@ (SignatureKey :> StringValue(signature))
      withRedirect == IF params.RedirectURL # EmptyString
                      THEN Put(base, RedirectURLKey, StringValue(params.RedirectURL))
                      ELSE base
  IN  IF params.ChainType # EmptyString
      THEN Put(withRedirect, ChainTypeKey, StringValue(params.ChainType))
      ELSE withRedirect

\* Lines 259-282: sign paramsMap, build the body, send it.
SignAndSend(c, params, timestamp, nonce, paramsMap, order, reply) ==
  LET r == request(c, "POST", CreateTransactionEndpoint,
                   CreatePaymentBody(c, params, timestamp, nonce,
                                     generateSignature(c, paramsMap, order)),
                   reply)
  IN  [resp |-> r.result, err |-> r.err, sent |-> r.sent,
       macInputs |-> <<QueryString(paramsMap, order)>>]

\* c.CreatePayment(params) with timestamp and nonce as lines 239-240 set them,
\* `order` the iteration order of paramsMap, `reply` the HTTP outcome.
CreatePaymentAt(c, params, timestamp, nonce, order, reply) ==
  SignAndSend(c, params, timestamp, nonce,
              CreatePaymentParamsMap(c, params, timestamp, nonce), order, reply)

\* CreatePayment with a nonce made once, from the first bytes the random source
\* returned, and used for every call.
CreatePaymentStaleNonce(c, params, now, draw, order, reply) ==
  CreatePaymentAt(c, params, FormatInt(now), generateNonce(1), order, reply)

\* c.CreatePayment(params): `now` is time.Now().Unix(), `draw` what crypto/rand
\* returned.
CreatePayment(c, params, now, draw, order, reply) ==
  CreatePaymentAt(c, params, FormatInt(now), generateNonce(draw), order, reply)

---------------------------------------------------------------------------
(* The query methods: net/url, QueryPayment*, ListOrders, GetMerchantInfo *)

RECURSIVE SomeOrder(_)
\* The elements of a set in some order.
SomeOrder(set) ==
  IF set = {} THEN <<>>
  ELSE LET x == CHOOSE x \in set : TRUE IN <<x>> \o SomeOrder(set \ {x})

HexUpper ==
  <<"0", "1", "2", "3", "4", "5", "6", "7", "8", "9", "A", "B", "C", "D", "E", "F">>

\* The characters url.QueryEscape leaves as they are: letters, digits, - _ . ~
IsUnreserved(ch) ==
  \/ \E i \in DOMAIN Digits : ch = Ch(Digits[i])
  \/ \E i \in DOMAIN Upper : ch = Ch(Upper[i])
  \/ \E i \in DOMAIN Lower : ch = Ch(Lower[i])
  \/ ch \in {Ch("-"), Ch("_"), Ch("."), Ch("~")}

\* url.QueryEscape(s): a space becomes +, every other character that is not
\* unreserved becomes % and the two upper-case hex digits of its byte.
QueryEscape(s) ==
  Concat([i \in 1..Len(s) |->
            IF IsUnreserved(s[i]) THEN <<s[i]>>
            ELSE IF s[i] = Ch(" ") THEN S(<<"+">>)
            ELSE <<Ch("%"), Ch(HexUpper[(ByteOf(s[i]) \div 16) + 1]),
                   Ch(HexUpper[(ByteOf(s[i]) % 16) + 1])>>])

RECURSIVE EncodePairs(_, _, _, _)
EncodePairs(v, keys, i, buf) ==
  IF i > Len(keys) THEN buf
  ELSE EncodePairs(v, keys, i + 1,
                   buf \o (IF buf # EmptyString THEN S(<<"&">>) ELSE EmptyString)
                       \o QueryEscape(keys[i]) \o S(<<"=">>) \o QueryEscape(v[keys[i]]))

\* url.Values.Encode(), each key holding one value: key=value pairs, escaped,
\* sorted by key and joined by &.
Encode(v) == EncodePairs(v, SortStrings(SomeOrder(DOMAIN v)), 1, EmptyString)

PageKey == S(<<"p", "a", "g", "e">>)
PageSizeKey == S(<<"p", "a", "g", "e", "_", "s", "i", "z", "e">>)
StartDateKey == S(<<"s", "t", "a", "r", "t", "_", "d", "a", "t", "e">>)
EndDateKey == S(<<"e", "n", "d", "_", "d", "a", "t", "e">>)

QueryByTradeIDEndpoint ==
  S(<<"/", "o", "r", "d", "e", "r", "/", "q", "u", "e", "r", "y", "?", "t", "r", "a", "d",
      "e", "_", "i", "d", "=">>)
QueryByOrderIDEndpoint ==
  S(<<"/", "o", "r", "d", "e", "r", "/", "q", "u", "e", "r", "y", "?", "o", "r", "d", "e",
      "r", "_", "i", "d", "=">>)
ListOrdersEndpoint ==
  S(<<"/", "m", "e", "r", "c", "h", "a", "n", "t", "/", "o", "r", "d", "e", "r", "s">>)
MerchantInfoEndpoint ==
  S(<<"/", "m", "e", "r", "c", "h", "a", "n", "t", "/", "i", "n", "f", "o">>)

\* What an API method returns, `return &resp, err`, with the requests it sent.
Returned(r) == [resp |-> r.result, err |-> r.err, sent |-> r.sent]

\* c.QueryPaymentByTradeID(tradeID)
QueryPaymentByTradeID(c, tradeID, reply) ==
  Returned(request(c, "GET", QueryByTradeIDEndpoint \o QueryEscape(tradeID), NilValue,
                   reply))

\* c.QueryPaymentByOrderID(orderID)
QueryPaymentByOrderID(c, orderID, reply) ==
  Returned(request(c, "GET", QueryByOrderIDEndpoint \o QueryEscape(orderID), NilValue,
                   reply))

\* query.Set(key, value) when `set` holds.
SetIf(set, query, key, value) == IF set THEN Put(query, key, value) ELSE query

\* ListOrdersQuery with page, page_size and status set whenever they are not 0.
ListOrdersQueryNonZero(params) ==
  SetIf(params.EndDate # EmptyString,
    SetIf(params.StartDate # EmptyString,
      SetIf(params.ChainType # EmptyString,
        SetIf(params.Status # 0,
          SetIf(params.PageSize # 0,
            SetIf(params.Page # 0, EmptyMap, PageKey, FormatInt(params.Page)),
            PageSizeKey, FormatInt(params.PageSize)),
          StatusKey, FormatInt(params.Status)),
        ChainTypeKey, params.ChainType),
      StartDateKey, params.StartDate),
    EndDateKey, params.EndDate)

\* Lines 301-319: the url.Values ListOrders fills.
ListOrdersQuery(params) ==
  SetIf(params.EndDate # EmptyString,
    SetIf(params.StartDate # EmptyString,
      SetIf(params.ChainType # EmptyString,
        SetIf(params.Status > 0,
          SetIf(params.PageSize > 0,
            SetIf(params.Page > 0, EmptyMap, PageKey, FormatInt(params.Page)),
            PageSizeKey, FormatInt(params.PageSize)),
          StatusKey, FormatInt(params.Status)),
        ChainTypeKey, params.ChainType),
      StartDateKey, params.StartDate),
    EndDateKey, params.EndDate)

\* Lines 321-324: the endpoint for a filled url.Values.
ListOrdersPath(query) ==
  IF Cardinality(DOMAIN query) > 0
  THEN ListOrdersEndpoint \o S(<<"?">>) \o Encode(query) ELSE ListOrdersEndpoint

\* c.ListOrders(params)
ListOrders(c, params, reply) ==
  Returned(request(c, "GET", ListOrdersPath(ListOrdersQuery(params)), NilValue, reply))

\* c.GetMerchantInfo()
GetMerchantInfo(c, reply) ==
  Returned(request(c, "GET", MerchantInfoEndpoint, NilValue, reply))

---------------------------------------------------------------------------
(* errors.go: the error codes and the classification of an APIError *)

ErrCodeInvalidAPIKey == 1001
ErrCodeSignatureVerifyFailed == 1002
ErrCodeAPIKeyExpired == 1003
ErrCodeIPNotWhitelisted == 1004
ErrCodeMerchantSuspended == 1005
ErrCodeInvalidOrderID == 10001
ErrCodeOrderExists == 10002
ErrCodeNoAvailableWallet == 10003
ErrCodeInvalidAmount == 10004
ErrCodeAmountChannelUnavail == 10005
ErrCodeExchangeRateError == 10006
ErrCodeOrderAlreadyPaid == 10007
ErrCodeOrderNotFound == 10008
ErrCodeOrderExpired == 10009
ErrCodeInvalidChainType == 20001
ErrCodeChainUnavailable == 20002
ErrCodeChainMonitoringDelay == 20003
ErrCodeRateLimitExceeded == 50001
ErrCodeBurstLimitExceeded == 50002

ErrCodes ==
  {ErrCodeInvalidAPIKey, ErrCodeSignatureVerifyFailed, ErrCodeAPIKeyExpired,
   ErrCodeIPNotWhitelisted, ErrCodeMerchantSuspended, ErrCodeInvalidOrderID,
   ErrCodeOrderExists, ErrCodeNoAvailableWallet, ErrCodeInvalidAmount,
   ErrCodeAmountChannelUnavail, ErrCodeExchangeRateError,
   ErrCodeOrderAlreadyPaid, ErrCodeOrderNotFound, ErrCodeOrderExpired,
   ErrCodeInvalidChainType, ErrCodeChainUnavailable,
   ErrCodeChainMonitoringDelay, ErrCodeRateLimitExceeded,
   ErrCodeBurstLimitExceeded}

\* NewAPIError(statusCode, message, requestID)
NewAPIError(statusCode, message, requestID) ==
  [StatusCode |-> statusCode, Message |-> message, RequestID |-> requestID]

\* e.IsRetryable()
IsRetryable(e) == e.StatusCode = 429 \/ e.StatusCode >= 500

\* e.IsAuthError()
IsAuthError(e) == e.StatusCode >= 1001 /\ e.StatusCode <= 1005

\* e.IsValidationError()
IsValidationError(e) == e.StatusCode >= 10001 /\ e.StatusCode <= 10009

\* e.IsChainError()
IsChainError(e) == e.StatusCode >= 20001 /\ e.StatusCode <= 20003

\* The status codes an APIError is built with: every code of errors.go, the
\* codes next to each range, success and the HTTP-like codes IsRetryable names.
APIErrorStatusCodes ==
  ErrCodes
    \cup {0, 200, 400, 429, 499, 500, 503}
    \cup {c + d : c \in {ErrCodeInvalidAPIKey, ErrCodeMerchantSuspended,
                         ErrCodeInvalidOrderID, ErrCodeOrderExpired,
                         ErrCodeInvalidChainType, ErrCodeChainMonitoringDelay},
                  d \in {-1, 1}}
APIErrorMessages == {S(<<"o", "o", "p", "s">>)}
APIErrorRequestIDs == {EmptyString, S(<<"r", "1">>)}

---------------------------------------------------------------------------
(* The environment: callers' inputs, the gateway, the iteration order of maps *)

\* The most keys a caller puts in a map it hands to generateSignature.
MaxParams == 3

\* The most string fields a webhook leaves empty.
MaxMissing == 1

ApiKeys == {S(<<"k", "1">>)}
Secrets == {S(<<"s", "1">>), S(<<"s", "2">>)}

RECURSIVE Perms(_)
Perms(set) ==
  IF set = {} THEN {<<>>}
  ELSE UNION {{<<x>> \o p : p \in Perms(set \ {x})} : x \in set}

Reverse(seq) == [i \in 1..Len(seq) |-> seq[Len(seq) + 1 - i]]

\* The orders in which `for k, v := range m` may yield the keys of m: every
\* order for a small map, one order and its reverse for a larger one.
RangeOrders(m) ==
  IF Cardinality(DOMAIN m) <= MaxParams THEN Perms(DOMAIN m)
  ELSE LET o == SomeOrder(DOMAIN m)
       IN  {o, Reverse(o)}

\* Parameter maps handed to generateSignature directly.
SignKeys == {S(<<"a">>), S(<<"b">>), S(<<"B">>), S(<<"a", "b">>), SignatureKey}
SignValues == {EmptyString, S(<<"1">>), S(<<"1", "&", "b", "=", "1">>)}
\* The parameters of TestGenerateSignature.
TestSignatureParams ==
  (OrderIDKey :> S(<<"O", "R", "D", "E", "R", "_", "0", "0", "1">>))
    @@ (AmountKey :> S(<<"1", "0", "0", ".", "0", "0">>))
    @@ (NotifyURLKey :>
          S(<<"h", "t", "t", "p", "s", ":", "/", "/", "e", "x", "a", "m", "p", "l", "e", ".",
              "c", "o", "m", "/", "w", "e", "b", "h", "o", "o", "k">>))
    @@ (ChainTypeKey :> S(<<"B", "S", "C">>))

SignParams ==
  UNION {[K -> SignValues] : K \in {K \in SUBSET SignKeys : Cardinality(K) <= MaxParams}}
    \cup {TestSignatureParams}

\* Webhook fields.  The amounts are 0, 100.00, 100.001 and 999.99, the actual
\* amounts 15.6250 and 15.62504.
AmountValues == {0, 100 * FloatUnit, 100 * FloatUnit + 100}
AmountTampered == AmountValues \cup {999 * FloatUnit + 99000}
ActualAmountValues == {15 * FloatUnit + 62500}
ActualAmountTampered == ActualAmountValues \cup {15 * FloatUnit + 62504}
StatusValues == {2}
StatusTampered == StatusValues \cup {0, 3}
FieldValue ==
  [TradeID |-> S(<<"T", "1">>), OrderID |-> S(<<"O", "1">>), Token |-> S(<<"0", "x", "a">>),
   ChainType |-> S(<<"B", "S", "C">>), BlockTransactionID |-> S(<<"0", "x", "1">>)]
FieldTampered ==
  [TradeID |-> S(<<"T", "2">>), OrderID |-> S(<<"O", "2">>), Token |-> S(<<"0", "x", "b">>),
   ChainType |-> S(<<"E", "T", "H">>), BlockTransactionID |-> S(<<"0", "x", "2">>)]
StringFields == DOMAIN FieldValue

\* The fields of a webhook other than its signature.
WebhookFields ==
  {[TradeID |-> IF "TradeID" \in E THEN EmptyString ELSE FieldValue.TradeID,
    OrderID |-> IF "OrderID" \in E THEN EmptyString ELSE FieldValue.OrderID,
    Amount |-> a, ActualAmount |-> aa,
    Token |-> IF "Token" \in E THEN EmptyString ELSE FieldValue.Token,
    ChainType |-> IF "ChainType" \in E THEN EmptyString ELSE FieldValue.ChainType,
    BlockTransactionID |-> IF "BlockTransactionID" \in E THEN EmptyString
                           ELSE FieldValue.BlockTransactionID,
    Status |-> st] :
     E \in {E \in SUBSET StringFields : Cardinality(E) <= MaxMissing},
     a \in AmountValues, aa \in ActualAmountValues, st \in StatusValues}

\* The values a field may be changed to or from.
ValuesOf(field) ==
  CASE field = "Amount" -> AmountTampered
    [] field = "ActualAmount" -> ActualAmountTampered
    [] field = "Status" -> StatusTampered
    [] OTHER -> {EmptyString, FieldValue[field], FieldTampered[field]}

AllFields == StringFields \cup {"Amount", "ActualAmount", "Status"}

\* The records that differ from f in exactly one field.
SingleFieldChanges(f) ==
  {[f EXCEPT ![field] = v] : <<field, v>> \in
     UNION {{<<field, v>> : v \in ValuesOf(field) \ {f[field]}} : field \in AllFields}}

\* The records made from f by moving its trade_id into its token: the token
\* becomes token&trade_id=<trade_id> and the trade_id empty.
FieldShifts(f) ==
  {[f EXCEPT !.Token = f.Token \o S(<<"&">>) \o TradeIDKey \o S(<<"=">>) \o f.TradeID,
             !.TradeID = EmptyString] :
     x \in {x \in {f} : x.Token # EmptyString /\ x.TradeID # EmptyString}}

\* The decimal text the gateway writes for the numbers of the model: amounts
\* with two decimals, actual amounts with four, the status as an integer.
AmountText ==
  (0 :> S(<<"0", ".", "0", "0">>))
    @@ (100 * FloatUnit :> S(<<"1", "0", "0", ".", "0", "0">>))
    @@ (100 * FloatUnit + 100 :> S(<<"1", "0", "0", ".", "0", "0">>))
    @@ (999 * FloatUnit + 99000 :> S(<<"9", "9", "9", ".", "9", "9">>))
    @@ (100 * FloatUnit + 25000 :> S(<<"1", "0", "0", ".", "2", "5">>))
ActualAmountText ==
  (15 * FloatUnit + 62500 :> S(<<"1", "5", ".", "6", "2", "5", "0">>))
    @@ (15 * FloatUnit + 62504 :> S(<<"1", "5", ".", "6", "2", "5", "0">>))
    @@ (15 * FloatUnit + 62510 :> S(<<"1", "5", ".", "6", "2", "5", "1">>))
StatusText == (0 :> S(<<"0">>)) @@ (2 :> S(<<"2">>)) @@ (3 :> S(<<"3">>))

\* The parameter set the gateway signs for a webhook with the fields f.
GatewayParams(f) ==
  (TradeIDKey :> f.TradeID) @@ (OrderIDKey :> f.OrderID)
    @@ (AmountKey :> AmountText[f.Amount])
    @@ (ActualAmountKey :> ActualAmountText[f.ActualAmount])
    @@ (TokenKey :> f.Token) @@ (ChainTypeKey :> f.ChainType)
    @@ (BlockTransactionIDKey :> f.BlockTransactionID)
    @@ (StatusKey :> StatusText[f.Status])

\* s sorts before t, byte by byte.
Before(s, t) ==
  \E i \in 1..Len(t) :
     /\ \A j \in 1..(i - 1) : j <= Len(s) /\ s[j] = t[j]
     /\ i = Len(s) + 1 \/ (i <= Len(s) /\ ByteOf(s[i]) < ByteOf(t[i]))

RECURSIVE JoinPairs(_, _, _)
JoinPairs(p, ks, i) ==
  IF i > Len(ks) THEN EmptyString
  ELSE ks[i] \o S(<<"=">>) \o p[ks[i]]
         \o (IF i < Len(ks) THEN S(<<"&">>) ELSE EmptyString) \o JoinPairs(p, ks, i + 1)

\* The keys of the set ks by ascending byte order: the i-th is the one with
\* i - 1 keys before it.
Ascending(ks) ==
  LET rank == [k \in ks |-> Cardinality({j \in ks : Before(j, k)})]
  IN  [i \in 1..Cardinality(ks) |-> CHOOSE k \in ks : rank[k] = i - 1]

\* The canonical string of the signing protocol: the pairs key=value whose key
\* is not `signature` and whose value is not empty, by ascending key, joined by &.
CanonicalString(p) ==
  JoinPairs(p, Ascending({k \in DOMAIN p : k # SignatureKey /\ p[k] # EmptyString}), 1)

\* The signature of the protocol over the parameter set p under a secret.
ProtocolSignature(secret, p) == HexEncodeToString(HmacSHA256(secret, CanonicalString(p)))

\* What a sender puts in the signature field, given the signature sig it would
\* be right to send.
SignatureForms == {"exact", "empty", "truncated", "extended", "upper", "flipped",
                   "other_secret", "text"}
SignatureForm(form, sig, other) ==
  CASE form = "exact" -> sig
    [] form = "empty" -> EmptyString
    [] form = "truncated" -> SubSeq(sig, 1, Len(sig) - 1)
    [] form = "extended" -> Append(sig, Ch("0"))
    [] form = "upper" -> [sig EXCEPT ![1] = [upper |-> sig[1]]]
    [] form = "flipped" -> [sig EXCEPT ![Len(sig)] = [flipped |-> sig[Len(sig)]]]
    [] form = "other_secret" -> other
    [] form = "text" -> S(<<"i", "n", "v", "a", "l", "i", "d">>)


\* A WebhookPayload with the fields f and the given signature.
WebhookPayload(f, signature) ==
  [TradeID |-> f.TradeID, OrderID |-> f.OrderID, Amount |-> f.Amount,
   ActualAmount |-> f.ActualAmount, Token |-> f.Token, ChainType |-> f.ChainType,
   BlockTransactionID |-> f.BlockTransactionID, Status |-> f.Status,
   Signature |-> signature]

\* The fields of a payload, without its signature.
FieldsOf(payload) ==
  [TradeID |-> payload.TradeID, OrderID |-> payload.OrderID, Amount |-> payload.Amount,
   ActualAmount |-> payload.ActualAmount, Token |-> payload.Token,
   ChainType |-> payload.ChainType,
   BlockTransactionID |-> payload.BlockTransactionID, Status |-> payload.Status]

\* The webhook body for the fields f as json.Unmarshal decodes it into a
\* map[string]interface{}: numbers become float64; with style "string" the
\* gateway sends its numbers as JSON strings.
DecodedFields(f, style) ==
  (TradeIDKey :> StringValue(f.TradeID)) @@ (OrderIDKey :> StringValue(f.OrderID))
    @@ (AmountKey :> IF style = "string" THEN StringValue(AmountText[f.Amount])
                     ELSE Float64Value(f.Amount))
    @@ (ActualAmountKey :> IF style = "string"
                           THEN StringValue(ActualAmountText[f.ActualAmount])
                           ELSE Float64Value(f.ActualAmount))
    @@ (TokenKey :> StringValue(f.Token)) @@ (ChainTypeKey :> StringValue(f.ChainType))
    @@ (BlockTransactionIDKey :> StringValue(f.BlockTransactionID))
    @@ (StatusKey :> IF style = "string" THEN StringValue(StatusText[f.Status])
                     ELSE Float64Value(f.Status * FloatUnit))

\* What the record holds under the key `signature`.
SignatureEntries == {"exact", "truncated", "empty", "absent", "number", "null", "bool"}
WithSignatureEntry(m, entry, sig) ==
  CASE entry = "exact" -> Put(m, SignatureKey, StringValue(sig))
    [] entry = "truncated" ->
         Put(m, SignatureKey, StringValue(SubSeq(sig, 1, Len(sig) - 1)))
    [] entry = "empty" -> Put(m, SignatureKey, StringValue(EmptyString))
    [] entry = "absent" -> m
    [] entry = "number" -> Put(m, SignatureKey, Float64Value(FloatUnit))
    [] entry = "null" -> Put(m, SignatureKey, NilValue)
    [] entry = "bool" -> Put(m, SignatureKey, BoolValue(TRUE))

\* A webhook whose amounts have as many decimals as the protocol writes:
\* amount 100.25, actual amount 15.6251.
FullDecimalsFields ==
  [TradeID |-> FieldValue.TradeID, OrderID |-> FieldValue.OrderID,
   Amount |-> 100 * FloatUnit + 25000, ActualAmount |-> 15 * FloatUnit + 62510,
   Token |-> FieldValue.Token, ChainType |-> FieldValue.ChainType,
   BlockTransactionID |-> FieldValue.BlockTransactionID, Status |-> 2]

\* The untyped records handed to VerifyWebhookSignatureFromMap under a secret:
\* webhooks the gateway signed, records without fields, and webhooks of a
\* sender that signs the numbers as JSON writes them.
UntypedRecords(secret) ==
  {WithSignatureEntry(DecodedFields(f, style), entry,
                      ProtocolSignature(secret, GatewayParams(f))) :
     f \in WebhookFields, style \in {"number", "string"}, entry \in SignatureEntries}
  \cup {WithSignatureEntry(EmptyMap, entry, ProtocolSignature(secret, EmptyMap)) :
          entry \in SignatureEntries}
  \cup {WithSignatureEntry(DecodedFields(FullDecimalsFields, "number"), entry,
                            ProtocolSignature(secret, GatewayParams(FullDecimalsFields))) :
          entry \in {"exact", "truncated"}}
  \cup {Put(m, SignatureKey,
             StringValue(ProtocolSignature(secret, [k \in DOMAIN m |-> FormatV(m[k])]))) :
          m \in {DecodedFields(f, "number") :
                   f \in {FullDecimalsFields,
                          [FullDecimalsFields EXCEPT !.Amount = 100 * FloatUnit]}}}

\* CreatePayment's inputs: the parameters, the clock, the random source and the
\* outcome of the HTTP exchange.
CreatePaymentInputs ==
  [OrderID : {EmptyString, S(<<"O", "1">>)}, Amount : {100 * FloatUnit, 100 * FloatUnit + 100},
   NotifyURL : {EmptyString, S(<<"u">>)}, RedirectURL : {EmptyString, S(<<"r">>)},
   ChainType : {EmptyString, S(<<"B", "S", "C">>)}]
\* The identifiers handed to the query methods.
QueryIDs ==
  {EmptyString, S(<<"C", "P", "1">>), S(<<"C", "P", " ", "1", "&", "a", "=", "b">>)}

\* ListOrders' inputs.
ListOrdersInputs ==
  [Page : {-1, 0, 1}, PageSize : {0, 20}, Status : {0, 2},
   ChainType : {EmptyString, S(<<"B", "S", "C">>)},
   StartDate : {EmptyString, S(<<"2", "0", "2", "4", "-", "0", "1", "-", "0", "1">>)},
   EndDate : {EmptyString, S(<<"x", "&", "p", "a", "g", "e", "=", "9">>)}]

Times == {1700000000, 1700000001}
Draws == {1, 2}
Replies ==
  {[kind |-> "do_error"], [kind |-> "read_error"], [kind |-> "bad_json"],
   [kind |-> "json", status_code |-> 200], [kind |-> "json", status_code |-> 10001]}

---------------------------------------------------------------------------
(* The state machine: one caller using one client, a call at a time *)

NoCall == [op |-> "none"]

Init ==
  /\ client \in {NewClient(k, s) : k \in ApiKeys, s \in Secrets}
  /\ pc = "idle"
  /\ call = NoCall
  /\ wire = <<>>

UseSandbox ==
  /\ pc = "idle"
  /\ client' = [client EXCEPT !.baseURL = SandboxURL]
  /\ UNCHANGED <<pc, call, wire>>

UseProduction ==
  /\ pc = "idle"
  /\ client' = [client EXCEPT !.baseURL = ProductionURL]
  /\ UNCHANGED <<pc, call, wire>>

\* A direct call of client.generateSignature(params), as the tests make.
Sign ==
  /\ pc = "idle"
  /\ \E params \in SignParams :
       \E order \in RangeOrders(params) :
          call' = [op |-> "generateSignature", params |-> params,
                   macInputs |-> <<QueryString(params, order)>>,
                   ret |-> generateSignature(client, params, order)]
  /\ pc' = "returned"
  /\ UNCHANGED <<client, wire>>

\* The signature field of a webhook whose signature the gateway computed over
\* the fields `signed` under the secret, sent in the given form.
SentSignature(secret, signed, form) ==
  SignatureForm(form, ProtocolSignature(secret, GatewayParams(signed)),
                ProtocolSignature(CHOOSE s \in Secrets : s # secret,
                                  GatewayParams(signed)))

\* client.VerifyWebhookSignature(payload) on a webhook whose signature the
\* gateway computed over the fields `signed`, and which arrives with the fields
\* f: those that were signed, those with one field changed on the way, or
\* those with the trade_id moved into the token.
Verify ==
  /\ pc = "idle"
  /\ \E signed \in WebhookFields :
       \E f \in {signed} \cup SingleFieldChanges(signed) \cup FieldShifts(signed),
          form \in SignatureForms :
          /\ form # "exact" => f = signed
          /\ \E payload \in {WebhookPayload(f, SentSignature(client.apiSecret,
                                                             signed, form))} :
               \E order \in RangeOrders(WebhookParams(payload)) :
                  call' = [op |-> "VerifyWebhookSignature", payload |-> payload,
                           signed |-> signed, form |-> form,
                           out |-> VerifyWebhookSignature(client, payload, order)]
  /\ pc' = "returned"
  /\ UNCHANGED <<client, wire>>

\* client.VerifyWebhookSignatureFromMap(payload)
VerifyFromMap ==
  /\ pc = "idle"
  /\ \E payload \in UntypedRecords(client.apiSecret) :
       \E order1 \in RangeOrders(payload) :
          \E order2 \in RangeOrders(StringifyInto(payload, order1, EmptyMap)) :
             call' = [op |-> "VerifyWebhookSignatureFromMap", payload |-> payload,
                      out |-> VerifyWebhookSignatureFromMap(client, payload,
                                                            order1, order2)]
  /\ pc' = "returned"
  /\ UNCHANGED <<client, wire>>

\* client.CreatePayment(params)
Pay ==
  /\ pc = "idle"
  /\ \E params \in CreatePaymentInputs, now \in Times, draw \in Draws,
        reply \in Replies :
       \E order \in RangeOrders(
                      CreatePaymentParamsMap(client, params, FormatInt(now),
                                             generateNonce(draw))) :
          \E r \in {CreatePayment(client, params, now, draw, order, reply)} :
             /\ call' = [op |-> "CreatePayment", params |-> params, now |-> now,
                         draw |-> draw, reply |-> reply,
                         out |-> [resp |-> r.resp, err |-> r.err,
                                  macInputs |-> r.macInputs]]
             /\ wire' = r.sent
  /\ pc' = "returned"
  /\ UNCHANGED client

\* The call of an API method that returned r.
ApiCall(op, input, reply, r) ==
  /\ call' = [op |-> op, input |-> input, reply |-> reply,
              out |-> [resp |-> r.resp, err |-> r.err]]
  /\ wire' = r.sent
  /\ pc' = "returned"
  /\ UNCHANGED client

\* client.QueryPaymentByTradeID(tradeID)
QueryByTradeID ==
  /\ pc = "idle"
  /\ \E id \in QueryIDs, reply \in Replies :
        ApiCall("QueryPaymentByTradeID", id, reply,
                QueryPaymentByTradeID(client, id, reply))

\* client.QueryPaymentByOrderID(orderID)
QueryByOrderID ==
  /\ pc = "idle"
  /\ \E id \in QueryIDs, reply \in Replies :
        ApiCall("QueryPaymentByOrderID", id, reply,
                QueryPaymentByOrderID(client, id, reply))

\* client.ListOrders(params)
List ==
  /\ pc = "idle"
  /\ \E params \in ListOrdersInputs, reply \in Replies :
        ApiCall("ListOrders", params, reply, ListOrders(client, params, reply))

\* client.GetMerchantInfo()
MerchantInfo ==
  /\ pc = "idle"
  /\ \E reply \in Replies :
        ApiCall("GetMerchantInfo", NilValue, reply, GetMerchantInfo(client, reply))

\* The classification of an APIError built by NewAPIError.
Classify ==
  /\ pc = "idle"
  /\ \E code \in APIErrorStatusCodes, message \in APIErrorMessages,
        requestID \in APIErrorRequestIDs :
       \E e \in {NewAPIError(code, message, requestID)} :
          call' = [op |-> "APIError", input |-> e,
                   out |-> [IsRetryable |-> IsRetryable(e),
                            IsAuthError |-> IsAuthError(e),
                            IsValidationError |-> IsValidationError(e),
                            IsChainError |-> IsChainError(e)]]
  /\ pc' = "returned"
  /\ UNCHANGED <<client, wire>>

\* The caller takes the result; the client is ready for the next call.
Return ==
  /\ pc = "returned"
  /\ pc' = "idle"
  /\ call' = NoCall
  /\ wire' = <<>>
  /\ UNCHANGED client

Next ==
  \/ UseSandbox
  \/ UseProduction
  \/ Sign
  \/ Verify
  \/ VerifyFromMap
  \/ Pay
  \/ QueryByTradeID
  \/ QueryByOrderID
  \/ List
  \/ MerchantInfo
  \/ Classify
  \/ Return

Spec == Init /\ [][Next]_vars

---------------------------------------------------------------------------
(* Concurrent signing and verification: two goroutines share one client.   *)
(* Here pc[t] is the position of goroutine t with the arguments its caller *)
(* passed, and call[s] holds the local variables stored in s.              *)

Threads == {"t1", "t2"}

\* Storage shared by all goroutines, in place of the locals of each.
ScratchShared(t) == "t1"

\* Where the local variables of goroutine t's call live (params, keys,
\* builder, the HMAC state): on its own stack.
Scratch(t) == t

\* The local variables of a call before any is set.
NoLocals ==
  [params |-> EmptyMap, keys |-> <<>>, builder |-> EmptyString,
   expectedSignature |-> EmptyString, ret |-> "none"]

\* The calls the goroutines make under a secret: generateSignature on two
\* parameter maps, VerifyWebhookSignature on a webhook rightly signed and on
\* one with its amount changed, VerifyWebhookSignatureFromMap on a decoded
\* webhook and on one without signature.
ConcurrentCalls(secret) ==
  LET f == CHOOSE f \in WebhookFields :
             f.Amount = 100 * FloatUnit /\ \A field \in StringFields : f[field] # EmptyString
      sig == ProtocolSignature(secret, GatewayParams(f))
  IN  {[op |-> "generateSignature", input |-> TestSignatureParams],
       [op |-> "generateSignature",
        input |-> (S(<<"b">>) :> S(<<"1">>)) @@ (S(<<"a">>) :> EmptyString)
                    @@ (SignatureKey :> S(<<"1">>))],
       [op |-> "VerifyWebhookSignature", input |-> WebhookPayload(f, sig)],
       [op |-> "VerifyWebhookSignature",
        input |-> WebhookPayload([f EXCEPT !.Amount = 999 * FloatUnit + 99000], sig)],
       [op |-> "VerifyWebhookSignatureFromMap",
        input |-> WithSignatureEntry(DecodedFields(f, "string"), "exact", sig)],
       [op |-> "VerifyWebhookSignatureFromMap",
        input |-> WithSignatureEntry(DecodedFields(f, "number"), "absent", sig)]}

InitConcurrent ==
  /\ client \in {NewClient(k, s) : k \in ApiKeys, s \in Secrets}
  /\ pc = [t \in Threads |-> [at |-> "idle"]]
  /\ call = [s \in {Scratch(t) : t \in Threads} |-> NoLocals]
  /\ wire = <<>>

\* Goroutine t moves to position `at` with its locals set to `locals`.
Step(t, at, locals) ==
  /\ pc' = [pc EXCEPT ![t].at = at]
  /\ call' = [call EXCEPT ![Scratch(t)] = locals]
  /\ UNCHANGED <<client, wire>>

\* A caller invokes one of the three operations; generateSignature receives
\* its map as the parameter params.
Begin(t) ==
  /\ pc[t].at = "idle"
  /\ \E c \in ConcurrentCalls(client.apiSecret) :
        /\ pc' = [pc EXCEPT ![t] =
                    [at |-> CASE c.op = "generateSignature" -> "filter"
                              [] c.op = "VerifyWebhookSignature" -> "params"
                              [] c.op = "VerifyWebhookSignatureFromMap" -> "assert",
                     op |-> c.op, input |-> c.input]]
        /\ call' = [call EXCEPT ![Scratch(t)] =
                      IF c.op = "generateSignature"
                      THEN [NoLocals EXCEPT !.params = c.input] ELSE NoLocals]
  /\ UNCHANGED <<client, wire>>

\* VerifyWebhookSignature, lines 341-350.
BuildParams(t) ==
  /\ pc[t].at = "params"
  /\ Step(t, "filter", [call[Scratch(t)] EXCEPT !.params = WebhookParams(pc[t].input)])

\* VerifyWebhookSignatureFromMap, lines 358-361.
AssertSignature(t) ==
  /\ pc[t].at = "assert"
  /\ IF SignatureIsString(pc[t].input)
     THEN Step(t, "stringify", call[Scratch(t)])
     ELSE Step(t, "done", [call[Scratch(t)] EXCEPT !.ret = FALSE])

\* VerifyWebhookSignatureFromMap, lines 362-368.
Stringify(t) ==
  /\ pc[t].at = "stringify"
  /\ \E order \in RangeOrders(pc[t].input) :
        Step(t, "filter",
             [call[Scratch(t)] EXCEPT !.params = StringifyInto(pc[t].input, order, EmptyMap)])

\* generateSignature, lines 376-382.
Filter(t) ==
  /\ pc[t].at = "filter"
  /\ \E order \in RangeOrders(call[Scratch(t)].params) :
        Step(t, "sort",
             [call[Scratch(t)] EXCEPT !.keys = FilterKeys(call[Scratch(t)].params, order)])

\* generateSignature, line 383.
Sort(t) ==
  /\ pc[t].at = "sort"
  /\ Step(t, "build", [call[Scratch(t)] EXCEPT !.keys = SortStrings(@)])

\* generateSignature, lines 385-394.
Build(t) ==
  /\ pc[t].at = "build"
  /\ Step(t, "mac",
          [call[Scratch(t)] EXCEPT
             !.builder = WriteQuery(call[Scratch(t)].params, call[Scratch(t)].keys, 1,
                                    EmptyString)])

\* generateSignature, lines 397-399; it returns to its caller.
Mac(t) ==
  /\ pc[t].at = "mac"
  /\ \E sig \in {HexEncodeToString(HmacSHA256(client.apiSecret,
                                               call[Scratch(t)].builder))} :
        IF pc[t].op = "generateSignature"
        THEN Step(t, "done", [call[Scratch(t)] EXCEPT !.ret = sig])
        ELSE Step(t, "compare", [call[Scratch(t)] EXCEPT !.expectedSignature = sig])

\* Lines 353 and 371.
Compare(t) ==
  /\ pc[t].at = "compare"
  /\ Step(t, "done",
          [call[Scratch(t)] EXCEPT
             !.ret = ConstantTimeCompare(
                       call[Scratch(t)].expectedSignature,
                       IF pc[t].op = "VerifyWebhookSignature" THEN pc[t].input.Signature
                       ELSE pc[t].input[SignatureKey].s) = 1])

\* The caller takes the result; the locals of the call are gone.
Finish(t) ==
  /\ pc[t].at = "done"
  /\ pc' = [pc EXCEPT ![t] = [at |-> "idle"]]
  /\ call' = [call EXCEPT ![Scratch(t)] = NoLocals]
  /\ UNCHANGED <<client, wire>>

NextConcurrent ==
  \E t \in Threads :
     \/ Begin(t)
     \/ BuildParams(t)
     \/ AssertSignature(t)
     \/ Stringify(t)
     \/ Filter(t)
     \/ Sort(t)
     \/ Build(t)
     \/ Mac(t)
     \/ Compare(t)
     \/ Finish(t)

SpecConcurrent == InitConcurrent /\ [][NextConcurrent]_vars

---------------------------------------------------------------------------
(* Configuration: a client is constructed, with options or without, and    *)
(* switched between the environments.  Here call records the arguments of  *)
(* the constructor, the client it returned and the switch called last.     *)

\* The most options a caller passes to NewClientWithOptions.
MaxOptions == 2

\* Base URLs a caller passes to WithBaseURL.
CustomURLs ==
  {EmptyString, S(<<"/">>), S(<<"h">>), S(<<"h", "/">>), S(<<"h", "/", "/">>),
   S(<<"h", "/", "a", "/">>), SandboxURL}

Options ==
  {[option |-> "WithBaseURL", baseURL |-> u] : u \in CustomURLs}
    \cup {[option |-> "WithTimeout", timeout |-> 60],
          [option |-> "WithHTTPClient", httpClient |-> [Timeout |-> 0]]}

OptionLists == UNION {[1..n -> Options] : n \in 0..MaxOptions}

InitConfig ==
  /\ \E k \in ApiKeys, s \in Secrets, opts \in OptionLists :
        /\ client = NewClientWithOptions(k, s, opts)
        /\ call = [op |-> "NewClientWithOptions", apiKey |-> k, apiSecret |-> s,
                   opts |-> opts, created |-> client, last |-> "none"]
  /\ pc = "idle"
  /\ wire = <<>>

\* client.UseSandbox()
SwitchToSandbox ==
  /\ client' = [client EXCEPT !.baseURL = SandboxURL]
  /\ call' = [call EXCEPT !.last = "UseSandbox"]
  /\ UNCHANGED <<pc, wire>>

\* client.UseProduction()
SwitchToProduction ==
  /\ client' = [client EXCEPT !.baseURL = ProductionURL]
  /\ call' = [call EXCEPT !.last = "UseProduction"]
  /\ UNCHANGED <<pc, wire>>

NextConfig ==
  \/ SwitchToSandbox
  \/ SwitchToProduction

SpecConfig == InitConfig /\ [][NextConfig]_vars

---------------------------------------------------------------------------
(* Properties *)

\* The entries of a parameter map that are signed.
Signed(p) == {k \in DOMAIN p : k # SignatureKey /\ p[k] # EmptyString}

\* C1: generateSignature returns the same signature, over the same canonical
\* string, for every order in which the entries of the mapping are iterated
\* and on every repeated call.
C1_OrderIndependent ==
  call.op = "generateSignature" =>
    \A order \in RangeOrders(call.params) :
       /\ generateSignature(client, call.params, order) = call.ret
       /\ <<QueryString(call.params, order)>> = call.macInputs

C1_Witness ==
  /\ call.op = "generateSignature"
  /\ Cardinality(Signed(call.params)) = 3

\* C2: the string fed to the HMAC is the key=value pairs whose key is not
\* `signature` and whose value is not empty, by ascending key (byte-wise),
\* joined by single `&`, values unescaped; the empty string when no entry
\* remains.  It holds of direct calls, webhook verification and CreatePayment.
C2_CanonicalString ==
  /\ call.op = "generateSignature" =>
       /\ call.macInputs = <<CanonicalString(call.params)>>
       /\ Signed(call.params) = {} => call.macInputs = <<EmptyString>>
  /\ call.op = "VerifyWebhookSignature" =>
       call.out.macInputs = <<CanonicalString(WebhookParams(call.payload))>>
  /\ call.op = "CreatePayment" =>
       call.out.macInputs =
         <<CanonicalString(CreatePaymentParamsMap(client, call.params,
                                                  FormatInt(call.now),
                                                  generateNonce(call.draw)))>>

C2_Witness ==
  /\ call.op = "generateSignature"
  /\ Cardinality(Signed(call.params)) = 2
  /\ Cardinality(DOMAIN call.params) = 3
  /\ \E k \in Signed(call.params) : \E i \in 1..Len(call.params[k]) :
        call.params[k][i] = Ch("&")

\* The fields in which two webhooks differ.
Changed(f, g) == {field \in AllFields : f[field] # g[field]}

\* The payload of the call carries the signature the gateway computed over
\* the fields call.signed, and differs from them in exactly one field.
SingleFieldTampered ==
  /\ call.op = "VerifyWebhookSignature"
  /\ call.payload.Signature =
       ProtocolSignature(client.apiSecret, GatewayParams(call.signed))
  /\ Cardinality(Changed(FieldsOf(call.payload), call.signed)) = 1

\* C3 as stated: a change of any single field to any different value makes
\* VerifyWebhookSignature return false.
C3_AnyChangeDetected == SingleFieldTampered => call.out.ret = FALSE

\* C3, amended: a change of a single field to a value whose signed text differs
\* (the amount at two decimals, the actual amount at four) makes
\* VerifyWebhookSignature return false.
C3_TextChangeDetected ==
  (SingleFieldTampered
     /\ GatewayParams(FieldsOf(call.payload)) # GatewayParams(call.signed))
    => call.out.ret = FALSE

C3_Witness ==
  /\ SingleFieldTampered
  /\ call.signed.Amount = 100 * FloatUnit
  /\ call.payload.Amount = 999 * FloatUnit + 99000
  /\ call.out.ret = FALSE

\* C4: a payload whose signature is the protocol's signature over its eight
\* fields (amount with 2 decimals, actual_amount with 4, status as a decimal
\* integer, the rest raw) verifies.
C4_RoundTrip ==
  (/\ call.op = "VerifyWebhookSignature"
   /\ call.payload.Signature =
        ProtocolSignature(client.apiSecret, GatewayParams(FieldsOf(call.payload))))
    => call.out.ret = TRUE

C4_Witness ==
  /\ call.op = "VerifyWebhookSignature"
  /\ call.form = "exact"
  /\ call.signed = FieldsOf(call.payload)
  /\ call.payload.Amount = 100 * FloatUnit + 100
  /\ call.out.ret = TRUE

\* The signature each verification recomputes.
ExpectedSignature ==
  IF call.op = "VerifyWebhookSignature"
  THEN generateSignature(client, WebhookParams(call.payload),
                         SomeOrder(DOMAIN WebhookParams(call.payload)))
  ELSE LET params == [k \in (DOMAIN call.payload) \ {SignatureKey} |->
                        FormatV(call.payload[k])]
       IN  generateSignature(client, params, SomeOrder(DOMAIN params))

\* C5: both verifications return false for every received signature that is
\* not identical, in length and content, to the recomputed one.
C5_OnlyExactSignature ==
  /\ (call.op = "VerifyWebhookSignature" /\ call.payload.Signature # ExpectedSignature)
       => call.out.ret = FALSE
  /\ (/\ call.op = "VerifyWebhookSignatureFromMap"
      /\ SignatureKey \in DOMAIN call.payload
      /\ call.payload[SignatureKey].t = "string"
      /\ call.payload[SignatureKey].s # ExpectedSignature)
       => call.out.ret = FALSE

C5_Witness ==
  /\ call.op = "VerifyWebhookSignature"
  /\ call.payload.Signature = SubSeq(ExpectedSignature, 1, Len(ExpectedSignature) - 1)
  /\ call.out.ret = FALSE

\* C6: VerifyWebhookSignatureFromMap on a record without a string under
\* `signature` returns false, does not panic, and neither computes nor compares
\* a signature.
C6_FailsClosed ==
  (/\ call.op = "VerifyWebhookSignatureFromMap"
   /\ \/ SignatureKey \notin DOMAIN call.payload
      \/ call.payload[SignatureKey].t # "string")
    => /\ call.out.ret = FALSE
       /\ ~call.out.panicked
       /\ call.out.macInputs = <<>>
       /\ call.out.compares = 0

C6_Witness ==
  /\ call.op = "VerifyWebhookSignatureFromMap"
  /\ SignatureKey \in DOMAIN call.payload
  /\ call.payload[SignatureKey].t = "float64"
  /\ TradeIDKey \in DOMAIN call.payload
  /\ call.out.ret = FALSE

\* C7: setting the key `signature`, to any value, leaves generateSignature
\* unchanged.
C7_SignatureKeyExcluded ==
  call.op = "generateSignature" =>
    \A v \in SignValues :
       \A order \in RangeOrders(Put(call.params, SignatureKey, v)) :
          generateSignature(client, Put(call.params, SignatureKey, v), order) = call.ret

C7_Witness ==
  /\ call.op = "generateSignature"
  /\ SignatureKey \notin DOMAIN call.params
  /\ Cardinality(Signed(call.params)) = 2

\* C8: adding a key that is not in the mapping, with the empty string as
\* value, leaves generateSignature unchanged.
C8_EmptyValueExcluded ==
  call.op = "generateSignature" =>
    \A k \in SignKeys \ DOMAIN call.params :
       \A order \in RangeOrders(Put(call.params, k, EmptyString)) :
          generateSignature(client, Put(call.params, k, EmptyString), order) = call.ret

C8_Witness ==
  /\ call.op = "generateSignature"
  /\ S(<<"a">>) \notin DOMAIN call.params
  /\ Cardinality(Signed(call.params)) = 2

\* C9: CreatePayment with an empty order_id or notify_url returns an error and
\* sends no request.
C9_MissingFieldFailsFast ==
  (/\ call.op = "CreatePayment"
   /\ call.params.OrderID = EmptyString \/ call.params.NotifyURL = EmptyString)
    => call.out.err # "nil" /\ wire = <<>>

\* C10: VerifyWebhookSignature returns false, without panicking, for every
\* payload with a missing field (an empty string or a zero), whatever its
\* signature.
C10_InvalidPayloadFailsClosed ==
  (/\ call.op = "VerifyWebhookSignature"
   /\ \/ \E field \in StringFields : call.payload[field] = EmptyString
      \/ call.payload.Amount = 0
      \/ call.payload.ActualAmount = 0
      \/ call.payload.Status = 0)
    => call.out.ret = FALSE /\ ~call.out.panicked

\* The parameter set a create-payment request with the given body is to be
\* signed over, for the parameters p of the call.
CreatePaymentSigned(body, p) ==
  LET base == (APIKeyKey :> body[APIKeyKey].s) @@ (TimestampKey :> body[TimestampKey].s)
                @@ (NonceKey :> body[NonceKey].s) @@ (OrderIDKey :> p.OrderID)
                @@ (AmountKey :> AmountText[p.Amount]) @@ (NotifyURLKey :> p.NotifyURL)
      opt == {<<RedirectURLKey, p.RedirectURL>>, <<ChainTypeKey, p.ChainType>>}
      present == {e \in opt : e[2] # EmptyString}
  IN  [k \in DOMAIN base \cup {e[1] : e \in present} |->
         IF k \in DOMAIN base THEN base[k]
         ELSE (CHOOSE e \in present : e[1] = k)[2]]

\* C11: every request CreatePayment sends carries `signature`, the signature
\* over {api_key, timestamp, nonce, order_id, amount with 2 decimals,
\* notify_url, and redirect_url, chain_type when not empty}; the body holds the
\* signed values of the string fields, and redirect_url, chain_type exactly
\* when they are not empty.
C11_BodySigned ==
  call.op = "CreatePayment" =>
    \A i \in DOMAIN wire :
       LET body == wire[i].body
           p == call.params
       IN  /\ {SignatureKey, APIKeyKey, TimestampKey, NonceKey, OrderIDKey, AmountKey,
               NotifyURLKey} \subseteq DOMAIN body
           /\ body[SignatureKey]
                = StringValue(ProtocolSignature(client.apiSecret,
                                                CreatePaymentSigned(body, p)))
           /\ body[APIKeyKey] = StringValue(client.apiKey)
           /\ body[OrderIDKey] = StringValue(p.OrderID)
           /\ body[NotifyURLKey] = StringValue(p.NotifyURL)
           /\ (RedirectURLKey \in DOMAIN body) <=> (p.RedirectURL # EmptyString)
           /\ (ChainTypeKey \in DOMAIN body) <=> (p.ChainType # EmptyString)
           /\ RedirectURLKey \in DOMAIN body
                => body[RedirectURLKey] = StringValue(p.RedirectURL)
           /\ ChainTypeKey \in DOMAIN body
                => body[ChainTypeKey] = StringValue(p.ChainType)

C11_Witness ==
  /\ call.op = "CreatePayment"
  /\ Len(wire) = 1
  /\ call.params.RedirectURL # EmptyString
  /\ call.params.ChainType = EmptyString
  /\ call.params.Amount = 100 * FloatUnit + 100

\* The decimal text of the Unix times of the model.
TimeText ==
  (1700000000 :> S(<<"1", "7", "0", "0", "0", "0", "0", "0", "0", "0">>))
    @@ (1700000001 :> S(<<"1", "7", "0", "0", "0", "0", "0", "0", "0", "1">>))

\* s is the lowercase hex form of the 16 bytes the random source returned at
\* its read number `draw`: 32 digits, two for each byte, in order.
IsNonceOf(s, draw) ==
  /\ Len(s) = 32
  /\ \A i \in 1..Len(s) :
        /\ DOMAIN s[i] = {"hex", "nib"}
        /\ s[i].hex = [rand |-> draw, i |-> (i + 1) \div 2]
        /\ s[i].nib = (IF i % 2 = 1 THEN "hi" ELSE "lo")

\* C12: in every CreatePayment call the timestamp signed and sent is the Unix
\* time at that call and the nonce is the hex form (32 characters) of 16 bytes
\* read from the random source at that call; the client holds only its key,
\* secret, base URL and HTTP client, so neither is kept from an earlier call.
C12_FreshPerCall ==
  /\ DOMAIN client = {"apiKey", "apiSecret", "baseURL", "httpClient"}
  /\ call.op = "CreatePayment" =>
       /\ wire # <<>>
       /\ \A i \in DOMAIN wire :
             /\ wire[i].body[TimestampKey] = StringValue(TimeText[call.now])
             /\ wire[i].body[NonceKey].t = "string"
             /\ IsNonceOf(wire[i].body[NonceKey].s, call.draw)
       /\ \A j \in DOMAIN call.out.macInputs :
             \E i \in DOMAIN wire :
                call.out.macInputs[j]
                  = CanonicalString(CreatePaymentSigned(wire[i].body, call.params))

C12_Witness ==
  /\ call.op = "CreatePayment"
  /\ call.now = 1700000001
  /\ call.draw = 2
  /\ Len(wire) = 1

\* ch is a lowercase hex digit of a byte of some HMAC digest.
IsDigestHexDigit(ch) ==
  /\ DOMAIN ch = {"hex", "nib"}
  /\ DOMAIN ch.hex = {"mac", "i"}
  /\ ch.nib \in {"hi", "lo"}

HasTestKeys(params) ==
  /\ DOMAIN params = {OrderIDKey, AmountKey, NotifyURLKey, ChainTypeKey}
  /\ \A k \in DOMAIN params : params[k] # EmptyString

C15_WorkIndependentOfSignature ==
  (call.op \in {"VerifyWebhookSignature", "VerifyWebhookSignatureFromMap"}
     /\ call.out.compares = 1)
    => call.out.bytesCompared = Len(ExpectedSignature)

\* What the call of goroutine t returns when it runs alone.
ResultAlone(t) ==
  CASE pc[t].op = "generateSignature" ->
         generateSignature(client, pc[t].input, SomeOrder(DOMAIN pc[t].input))
    [] pc[t].op = "VerifyWebhookSignature" ->
         VerifyWebhookSignature(client, pc[t].input,
                                SomeOrder(DOMAIN WebhookParams(pc[t].input))).ret
    [] pc[t].op = "VerifyWebhookSignatureFromMap" ->
         VerifyWebhookSignatureFromMap(
           client, pc[t].input, SomeOrder(DOMAIN pc[t].input),
           SomeOrder(DOMAIN pc[t].input \ {SignatureKey})).ret

\* C16: under every interleaving of two goroutines signing and verifying on
\* one client, each call returns what it returns alone; the client is as
\* NewClient made it, the map handed to generateSignature is as its caller
\* passed it, and nothing is sent.
C16_PureUnderInterleaving ==
  /\ client \in {NewClient(k, s) : k \in ApiKeys, s \in Secrets}
  /\ wire = <<>>
  /\ \A t \in Threads :
        /\ (pc[t].at # "idle" /\ pc[t].op = "generateSignature")
             => call[Scratch(t)].params = pc[t].input
        /\ pc[t].at = "done" => call[Scratch(t)].ret = ResultAlone(t)

C16_Witness ==
  /\ pc["t1"].at = "done"
  /\ pc["t1"].op = "VerifyWebhookSignature"
  /\ call[Scratch("t1")].ret = TRUE
  /\ pc["t2"].at = "mac"
  /\ pc["t2"].op = "generateSignature"

\* t is s with its trailing slashes removed: a prefix of s that does not end
\* in a slash and is followed in s by slashes only.
IsWithoutTrailingSlashes(t, s) ==
  /\ Len(t) <= Len(s)
  /\ SubSeq(s, 1, Len(t)) = t
  /\ \A i \in (Len(t) + 1)..Len(s) : s[i] = Ch("/")
  /\ t # EmptyString => t[Len(t)] # Ch("/")

\* The base URLs of the WithBaseURL options in opts, in order.
BaseURLsOf(opts) ==
  SelectSeq(opts, LAMBDA o : o.option = "WithBaseURL")

\* C17: a client made by NewClient targets ProductionURL with the given key
\* and secret; after UseSandbox / UseProduction calls its base URL is
\* SandboxURL if the last one was UseSandbox and ProductionURL if it was
\* UseProduction, and key, secret and HTTP client are as constructed; the
\* client NewClientWithOptions returns has, for the last WithBaseURL(u) among
\* its options, u without its trailing slashes as base URL, and ProductionURL
\* when there is none.
C17_BaseURL ==
  /\ client.apiKey = call.apiKey
  /\ client.apiSecret = call.apiSecret
  /\ client.httpClient = call.created.httpClient
  /\ (call.opts = <<>> /\ call.last = "none")
       => client = [apiKey |-> call.apiKey, apiSecret |-> call.apiSecret,
                    baseURL |-> ProductionURL, httpClient |-> [Timeout |-> 30]]
  /\ call.last = "UseSandbox" => client.baseURL = SandboxURL
  /\ call.last = "UseProduction" => client.baseURL = ProductionURL
  /\ call.last = "none" => client = call.created
  /\ BaseURLsOf(call.opts) = <<>> => call.created.baseURL = ProductionURL
  /\ BaseURLsOf(call.opts) # <<>>
       => IsWithoutTrailingSlashes(
            call.created.baseURL,
            BaseURLsOf(call.opts)[Len(BaseURLsOf(call.opts))].baseURL)

C17_Witness ==
  /\ call.op = "NewClientWithOptions"
  /\ Len(call.opts) = 1
  /\ call.opts[1].option = "WithBaseURL"
  /\ call.opts[1].baseURL = S(<<"h", "/", "/">>)
  /\ call.created.baseURL = S(<<"h">>)
  /\ call.last = "UseSandbox"
  /\ client.baseURL = SandboxURL

ApiOps ==
  {"CreatePayment", "QueryPaymentByTradeID", "QueryPaymentByOrderID", "ListOrders",
   "GetMerchantInfo"}

\* C18: a call of an API method sends at most one request; its error is not
\* nil exactly when sending the request, reading the response or decoding it
\* failed; a decoded response is returned with a nil error and its
\* status_code, 200 or not; the response returned is never nil.
C18_OneRequestErrorOnlyOnFailure ==
  call.op \in ApiOps =>
    /\ Len(wire) <= 1
    /\ (call.out.err # "nil")
         <=> (call.reply.kind \in {"do_error", "read_error", "bad_json"})
    /\ call.reply.kind = "json"
         => /\ call.out.err = "nil"
            /\ call.out.resp.StatusCode = call.reply.status_code
    /\ call.out.resp # NilValue
    /\ DOMAIN call.out.resp = {"StatusCode", "decoded"}

C18_Witness ==
  /\ call.op = "QueryPaymentByOrderID"
  /\ call.reply.kind = "json"
  /\ call.reply.status_code = 10001
  /\ call.out.err = "nil"
  /\ call.out.resp.StatusCode = 10001
  /\ Len(wire) = 1

\* The position of the first character c of s at or after position i, or 0.
RECURSIVE IndexFrom(_, _, _)
IndexFrom(s, c, i) ==
  IF i > Len(s) THEN 0 ELSE IF s[i] = c THEN i ELSE IndexFrom(s, c, i + 1)

\* The pieces of s between the occurrences of the character c.
RECURSIVE Split(_, _)
Split(s, c) ==
  LET i == IndexFrom(s, c, 1)
  IN  IF i = 0 THEN <<s>>
      ELSE <<SubSeq(s, 1, i - 1)>> \o Split(SubSeq(s, i + 1, Len(s)), c)

\* The character with the given byte value.
CharOfByte(b) == Ch(CHOOSE x \in DOMAIN AsciiCode : AsciiCode[x] = b)

\* The value of an upper-case hex digit.
HexValue(ch) == (CHOOSE i \in DOMAIN HexUpper : Ch(HexUpper[i]) = ch) - 1

\* A query component as a server decodes it: + is a space, %XY the byte XY.
RECURSIVE QueryUnescape(_)
QueryUnescape(s) ==
  IF s = EmptyString THEN EmptyString
  ELSE IF s[1] = Ch("+") THEN <<Ch(" ")>> \o QueryUnescape(Tail(s))
  ELSE IF s[1] = Ch("%")
       THEN <<CharOfByte(16 * HexValue(s[2]) + HexValue(s[3]))>>
              \o QueryUnescape(SubSeq(s, 4, Len(s)))
  ELSE <<s[1]>> \o QueryUnescape(Tail(s))

\* The key/value pairs a server reads from the query string q.
QueryPairs(q) ==
  LET pieces == Split(q, Ch("&"))
  IN  [i \in 1..Len(pieces) |->
         LET eq == IndexFrom(pieces[i], Ch("="), 1)
         IN  <<QueryUnescape(SubSeq(pieces[i], 1, eq - 1)),
               QueryUnescape(SubSeq(pieces[i], eq + 1, Len(pieces[i])))>>]

\* The decimal text of the integers of the model.
IntText ==
  (1 :> S(<<"1">>)) @@ (2 :> S(<<"2">>)) @@ (20 :> S(<<"2", "0">>))

\* The filters a ListOrders call with the parameters p is to send.
ListOrdersFilters(p) ==
  {<<PageKey, IntText[p.Page]>> : x \in {x \in {p.Page} : x > 0}}
    \cup {<<PageSizeKey, IntText[p.PageSize]>> : x \in {x \in {p.PageSize} : x > 0}}
    \cup {<<StatusKey, IntText[p.Status]>> : x \in {x \in {p.Status} : x > 0}}
    \cup {<<ChainTypeKey, p.ChainType>> : x \in {x \in {p.ChainType} : x # EmptyString}}
    \cup {<<StartDateKey, p.StartDate>> : x \in {x \in {p.StartDate} : x # EmptyString}}
    \cup {<<EndDateKey, p.EndDate>> : x \in {x \in {p.EndDate} : x # EmptyString}}

\* C19: ListOrders sends a GET to /merchant/orders under the base URL; its
\* query string holds page, page_size and status exactly when the integer is
\* greater than 0, as its decimal text, and chain_type, start_date and end_date
\* exactly when the string is not empty, each once; with no filter the URL has
\* no `?`.
C19_ListOrdersQuery ==
  call.op = "ListOrders" =>
    /\ Len(wire) = 1
    /\ wire[1].method = "GET"
    /\ LET url == wire[1].url
           base == client.baseURL \o ListOrdersEndpoint
           filters == ListOrdersFilters(call.input)
       IN  /\ Len(url) >= Len(base)
           /\ SubSeq(url, 1, Len(base)) = base
           /\ filters = {} => url = base
           /\ filters # {} =>
                /\ Len(url) > Len(base) + 1
                /\ url[Len(base) + 1] = Ch("?")
                /\ LET pairs == QueryPairs(SubSeq(url, Len(base) + 2, Len(url)))
                   IN  /\ {pairs[i] : i \in DOMAIN pairs} = filters
                       /\ Len(pairs) = Cardinality(filters)

C19_Witness ==
  /\ call.op = "ListOrders"
  /\ call.input.Page = -1
  /\ call.input.PageSize = 20
  /\ call.input.Status = 0
  /\ call.input.ChainType = EmptyString
  /\ call.input.EndDate # EmptyString
  /\ Len(wire) = 1

\* C20: the classification of an APIError is consistent: IsRetryable is true
\* only for rate-limit and server errors, so an error is never retryable and at
\* the same time an authentication, validation or chain error, and the three
\* kinds exclude one another.
C20_ClassificationConsistent ==
  call.op = "APIError" =>
    /\ ~(call.out.IsRetryable /\ call.out.IsAuthError)
    /\ ~(call.out.IsRetryable /\ call.out.IsValidationError)
    /\ ~(call.out.IsRetryable /\ call.out.IsChainError)
    /\ ~(call.out.IsAuthError /\ call.out.IsValidationError)
    /\ ~(call.out.IsAuthError /\ call.out.IsChainError)
    /\ ~(call.out.IsValidationError /\ call.out.IsChainError)

\* The part of the classification that holds: an error is of at most one of
\* the kinds authentication, validation and chain, and the kind is the one of
\* the range of errors.go its code lies in.
C20_KindsDisjoint ==
  call.op = "APIError" =>
    /\ Cardinality({k \in {"IsAuthError", "IsValidationError", "IsChainError"} :
                      call.out[k]}) <= 1
    /\ call.out.IsAuthError
         <=> call.input.StatusCode \in ErrCodeInvalidAPIKey..ErrCodeMerchantSuspended
    /\ call.out.IsValidationError
         <=> call.input.StatusCode \in ErrCodeInvalidOrderID..ErrCodeOrderExpired
    /\ call.out.IsChainError
         <=> call.input.StatusCode \in ErrCodeInvalidChainType..ErrCodeChainMonitoringDelay

\* C21: canonicalization is unambiguous: two parameter sets that differ in
\* their signed entries never produce the same canonical string, and a
\* webhook that carries the signature of other signed texts than its own never
\* verifies, whatever characters its values hold.
C21_CanonicalUnambiguous ==
  /\ call.op = "generateSignature" =>
       \A q \in SignParams :
          [k \in Signed(q) |-> q[k]] # [k \in Signed(call.params) |-> call.params[k]]
            => <<QueryString(q, SomeOrder(DOMAIN q))>> # call.macInputs
  /\ (/\ call.op = "VerifyWebhookSignature"
      /\ call.payload.Signature =
           ProtocolSignature(client.apiSecret, GatewayParams(call.signed))
      /\ GatewayParams(FieldsOf(call.payload)) # GatewayParams(call.signed))
       => call.out.ret = FALSE

\* A webhook with the trade_id moved into the token verifies under the
\* signature of the webhook it was made from.
C21_ShiftedWebhookVerifies ==
  /\ call.op = "VerifyWebhookSignature"
  /\ FieldsOf(call.payload) \in FieldShifts(call.signed)
  /\ call.out.ret = TRUE

\* The keys of a webhook record.
WebhookKeys ==
  {TradeIDKey, OrderIDKey, AmountKey, ActualAmountKey, TokenKey, ChainTypeKey,
   BlockTransactionIDKey, StatusKey, SignatureKey}

\* The decoded record m holds the nine webhook fields with the JSON types of
\* WebhookPayload: strings, and numbers for amount, actual_amount and status
\* (a whole number).
HoldsWebhookFields(m) ==
  /\ DOMAIN m = WebhookKeys
  /\ \A k \in {AmountKey, ActualAmountKey, StatusKey} : m[k].t = "float64"
  /\ \A k \in WebhookKeys \ {AmountKey, ActualAmountKey, StatusKey} : m[k].t = "string"
  /\ m[StatusKey].f % FloatUnit = 0

\* The WebhookPayload json.Unmarshal decodes from the body that decodes to m.
TypedPayload(m) ==
  [TradeID |-> m[TradeIDKey].s, OrderID |-> m[OrderIDKey].s, Amount |-> m[AmountKey].f,
   ActualAmount |-> m[ActualAmountKey].f, Token |-> m[TokenKey].s,
   ChainType |-> m[ChainTypeKey].s, BlockTransactionID |-> m[BlockTransactionIDKey].s,
   Status |-> m[StatusKey].f \div FloatUnit, Signature |-> m[SignatureKey].s]

\* What VerifyWebhookSignature returns on the typed payload of the record m.
TypedResult(m) ==
  VerifyWebhookSignature(client, TypedPayload(m),
                         SomeOrder(DOMAIN WebhookParams(TypedPayload(m)))).ret

\* The generic text of the numbers of m is their fixed-point text.
SameNumberText(m) ==
  /\ FormatFloatV(m[AmountKey].f) = formatAmount(m[AmountKey].f)
  /\ FormatFloatV(m[ActualAmountKey].f) = formatActualAmount(m[ActualAmountKey].f)

C22_UntypedRejectsValid ==
  /\ call.op = "VerifyWebhookSignatureFromMap"
  /\ HoldsWebhookFields(call.payload)
  /\ TypedResult(call.payload) = TRUE
  /\ call.out.ret = FALSE

\* A record signed over the generic text of its numbers that the untyped path
\* accepts and the typed path rejects.
C22_TypedRejectsGeneric ==
  /\ call.op = "VerifyWebhookSignatureFromMap"
  /\ HoldsWebhookFields(call.payload)
  /\ ~SameNumberText(call.payload)
  /\ TypedResult(call.payload) = FALSE
  /\ call.out.ret = TRUE

\* The number a run of decimal digits denotes.
RECURSIVE NatValue(_)
NatValue(s) ==
  IF s = EmptyString THEN 0
  ELSE 10 * NatValue(SubSeq(s, 1, Len(s) - 1)) + (ByteOf(s[Len(s)]) - ByteOf(Ch("0")))

\* The value a non-negative decimal text with at most five decimals denotes,
\* in units of 1/FloatUnit.
DecimalValue(s) ==
  LET dot == IndexFrom(s, Ch("."), 1)
      whole == IF dot = 0 THEN s ELSE SubSeq(s, 1, dot - 1)
      frac == IF dot = 0 THEN EmptyString ELSE SubSeq(s, dot + 1, Len(s))
  IN  NatValue(whole) * FloatUnit + NatValue(frac) * (FloatUnit \div 10 ^ Len(frac))

\* The request CreatePayment sends for the parameters p at the time and with
\* the random bytes of the call.
RequestFor(p) ==
  CreatePayment(client, p, call.now, call.draw,
                SomeOrder(DOMAIN CreatePaymentParamsMap(client, p, FormatInt(call.now),
                                                        generateNonce(call.draw))),
                call.reply).sent[1]

\* C23: the signature of a CreatePayment request binds the amount it carries:
\* the amount text that is signed denotes the amount of the body, and a request
\* that differs from it in the amount of the body only has another signature.
C23_SignatureBindsAmount ==
  call.op = "CreatePayment" =>
    \A i \in DOMAIN wire :
       /\ DecimalValue(formatAmount(call.params.Amount)) = wire[i].body[AmountKey].f
       /\ \A p \in CreatePaymentInputs :
             LET other == RequestFor(p)
             IN  (/\ other.body[AmountKey] # wire[i].body[AmountKey]
                  /\ [other.body EXCEPT ![AmountKey] = wire[i].body[AmountKey],
                                        ![SignatureKey] = wire[i].body[SignatureKey]]
                       = wire[i].body)
                   => other.body[SignatureKey] # wire[i].body[SignatureKey]

\* Two requests alike in everything but the amount of the body, 100.00 and
\* 100.001, carry the same signature.
C23_SameSignatureOtherAmount ==
  /\ call.op = "CreatePayment"
  /\ Len(wire) = 1
  /\ wire[1].body[AmountKey] = Float64Value(100 * FloatUnit + 100)
  /\ \E p \in CreatePaymentInputs :
        /\ [p EXCEPT !.Amount = call.params.Amount] = call.params
        /\ RequestFor(p).body[AmountKey] = Float64Value(100 * FloatUnit)
        /\ RequestFor(p).body[SignatureKey] = wire[1].body[SignatureKey]

\* The part of C23 that holds: the signature binds the amount at two decimals.
C23_BindsRoundedAmount ==
  call.op = "CreatePayment" =>
    \A i \in DOMAIN wire :
       /\ wire[i].body[SignatureKey]
            = StringValue(generateSignature(
                client,
                [CreatePaymentSigned(wire[i].body, call.params) EXCEPT
                   ![AmountKey] = formatAmount(wire[i].body[AmountKey].f)],
                SomeOrder(DOMAIN CreatePaymentSigned(wire[i].body, call.params))))

===========================================================================
